---- MODULE Spec2Model ----
(***************************************************************************)
(* A model of the two proxy deployments of this repository:                *)
(*   "jimeng"  src/src/jimeng2opendraw.ts  (single route, required prompt,  *)
(*             defaults)                                                    *)
(*   "xai"     src/unnamed/part_000        (all /v1/ paths, passthrough)    *)
(* One request is handled at a time; the handler is cut at its checkpoints  *)
(* (content type, body parse, required field, filtering, dispatch, fetch).  *)
(*                                                                          *)
(* Strings that the code searches or takes prefixes of (paths, header       *)
(* values) are sequences of tokens; JSON values are records                 *)
(* [t, n, d, s] (type tag, numerator, denominator, string).                 *)
(***************************************************************************)
EXTENDS Integers, Sequences, FiniteSets, TLC

VARIABLES variant, pc, request, url, targetUrl, originalBody, filteredBody,
          outbound, upstream, fetchError, response, escaped, route, trace,
          parseCount, fetchCount

vars == <<variant, pc, request, url, targetUrl, originalBody, filteredBody,
          outbound, upstream, fetchError, response, escaped, route, trace,
          parseCount, fetchCount>>

\* ---------------------------------------------------------------- bounds
\* largest number of keys of a JSON object body
MaxKeys == 2
\* largest number of query parameters of an inbound URL
MaxQuery == 2

\* ------------------------------------------------------------- constants
Variants == {"jimeng", "xai"}

TARGET_API_HOST == "sejktjafstpl.us-east-1.clawcloudrun.com"
XAI_API_HOST == "api.x.ai"

ApiHost(v) == IF v = "jimeng" THEN TARGET_API_HOST ELSE XAI_API_HOST

IMAGE_GENERATION_PATH == <<"/", "v1", "/", "images", "/", "generations">>

\* the prefix '/v1/' of url.pathname.startsWith('/v1/')
V1_PREFIX == <<"/", "v1", "/">>

SUPPORTED_IMAGE_PARAMS(v) ==
    IF v = "jimeng"
    THEN <<"model", "prompt", "negativePrompt", "width", "height", "sample_strength">>
    ELSE <<"model", "prompt", "n", "response_format">>

PREFLIGHT_CORS_HEADERS ==
    [h \in {"access-control-allow-origin", "access-control-allow-methods",
            "access-control-allow-headers", "access-control-max-age"} |->
        CASE h = "access-control-allow-origin" -> <<"*">>
          [] h = "access-control-allow-methods" -> <<"GET, POST, PUT, DELETE, OPTIONS">>
          [] h = "access-control-allow-headers" -> <<"Content-Type, Authorization, X-Requested-With">>
          [] h = "access-control-max-age" -> <<"86400">>]

SUCCESS_CORS_HEADERS == [h \in {"access-control-allow-origin"} |-> <<"*">>]

\* ----------------------------------------------------------- JSON values
Undefined == [t |-> "undefined", n |-> 0, d |-> 1, s |-> ""]
JNull == [t |-> "null", n |-> 0, d |-> 1, s |-> ""]
JStr(str) == [t |-> "string", n |-> 0, d |-> 1, s |-> str]
JNum(num, den) == [t |-> "number", n |-> num, d |-> den, s |-> ""]

\* JavaScript truthiness, as used by `!x`
Truthy(v) ==
    CASE v.t = "undefined" -> FALSE
      [] v.t = "null" -> FALSE
      [] v.t = "boolean" -> v.n = 1
      [] v.t = "number" -> v.n # 0
      [] v.t = "string" -> v.s # ""
      [] OTHER -> TRUE

EmptyObject == [k \in {} |-> Undefined]

\* a body as request.json() yields it: kind "invalid" makes json() reject
Body(kind, props) == [kind |-> kind, props |-> props]

\* obj[key] on a parsed body that is not null: an own property of an object,
\* undefined on an object without the key and on arrays, strings, numbers
\* and booleans (no allow-listed name is a prototype property)
GetProp(body, key) ==
    IF body.kind = "object" /\ key \in DOMAIN body.props
    THEN body.props[key]
    ELSE Undefined

\* obj[key] = value on a plain object
SetProp(obj, key, value) ==
    [k \in DOMAIN obj \cup {key} |-> IF k = key THEN value ELSE obj[k]]

\* obj[key] on a plain object
ReadProp(obj, key) == IF key \in DOMAIN obj THEN obj[key] ELSE Undefined

\* JSON.stringify of a plain object: properties holding undefined are left out
JSONStringify(obj) ==
    [k \in {x \in DOMAIN obj : obj[x].t # "undefined"} |-> obj[k]]

\* ---------------------------------------------------------------- headers
EmptyHeaders == [h \in {} |-> <<>>]

\* Headers.prototype.set
HeadersSet(headers, name, value) ==
    [h \in DOMAIN headers \cup {name} |-> IF h = name THEN value ELSE headers[h]]

\* Headers.prototype.delete
HeadersDelete(headers, name) == [h \in DOMAIN headers \ {name} |-> headers[h]]

\* headers.get(name) || ''
HeadersGetOrEmpty(headers, name) ==
    IF name \in DOMAIN headers THEN headers[name] ELSE <<>>

\* String.prototype.includes on a tokenised string
Includes(str, token) == \E i \in 1..Len(str) : str[i] = token

\* String.prototype.startsWith on a tokenised string
StartsWith(str, prefix) ==
    /\ Len(str) >= Len(prefix)
    /\ \A i \in 1..Len(prefix) : str[i] = prefix[i]

RECURSIVE SetAll(_, _, _)
SetAll(headers, names, source) ==
    IF names = {} THEN headers
    ELSE LET name == CHOOSE x \in names : TRUE
         IN SetAll(HeadersSet(headers, name, source[name]), names \ {name}, source)

\* the overlay left out
addCorsHeaders_skipped(headers) == headers

addCorsHeaders(headers) ==
    SetAll(headers, DOMAIN SUCCESS_CORS_HEADERS, SUCCESS_CORS_HEADERS)

\* -------------------------------------------------------------- responses
NoBody == [kind |-> "null", text |-> ""]
TextBody(text) == [kind |-> "text", text |-> text]
\* JSON.stringify({ error: message })
ErrorBody(message) == [kind |-> "json-error", text |-> message]
StreamBody(tag) == [kind |-> "stream", text |-> tag]

Response(status, headers, body) ==
    [status |-> status, headers |-> headers, body |-> body]

NoResponse == Response(0, EmptyHeaders, NoBody)

\* a preflight answered like an ordinary request
handleCorsPreflight_ok == Response(200, PREFLIGHT_CORS_HEADERS, TextBody("OK"))

handleCorsPreflight == Response(204, PREFLIGHT_CORS_HEADERS, NoBody)

JsonHeaders == HeadersSet(EmptyHeaders, "content-type", <<"application/json">>)

\* an error response of handleImageGenerationRequest / handleRequest
ErrorResponse(status, message) ==
    Response(status, addCorsHeaders(JsonHeaders), ErrorBody(message))

NotFoundResponse ==
    Response(404,
             addCorsHeaders(HeadersSet(EmptyHeaders, "content-type", <<"text/plain">>)),
             TextBody("Not Found"))

FetchErrorPrefix(v) ==
    IF v = "jimeng" THEN "Error fetching from API: "
    ELSE "Error fetching from xAI API: "

\* the exception is thrown on to the runtime
OuterCatch_rethrow(message) == [response |-> NoResponse, escaped |-> TRUE]

\* the catch of handleRequest's try block: the handler's outcome
OuterCatch(message) ==
    [response |-> ErrorResponse(500, "Internal Server Error: " \o message),
     escaped |-> FALSE]

\* the catch around fetch in handleImageGenerationRequest
FetchCatch(v, message) == ErrorResponse(502, FetchErrorPrefix(v) \o message)

\* a response relayed from the upstream; forceJson is the image route's
\* responseHeaders.set('Content-Type', 'application/json')
Relay(apiResponse, forceJson) ==
    LET withCors == addCorsHeaders(apiResponse.headers)
        responseHeaders == IF forceJson
                           THEN HeadersSet(withCors, "content-type", <<"application/json">>)
                           ELSE withCors
    IN Response(apiResponse.status, responseHeaders, apiResponse.body)

\* ------------------------------------------------------------------- URLs
\* URLSearchParams.prototype.set in place of append: one value per key
SearchParamsAppend_set(params, key, value) ==
    IF \E i \in 1..Len(params) : params[i][1] = key
    THEN LET first == CHOOSE i \in 1..Len(params) :
                        /\ params[i][1] = key
                        /\ \A j \in 1..(i - 1) : params[j][1] # key
         IN SelectSeq([i \in 1..Len(params) |->
                          IF i = first THEN <<key, value>> ELSE params[i]],
                      LAMBDA pair : pair[1] # key \/ pair = <<key, value>>)
    ELSE Append(params, <<key, value>>)

\* URLSearchParams.prototype.append
SearchParamsAppend(params, key, value) == Append(params, <<key, value>>)

\* url.searchParams.forEach((value, key) => target.searchParams.append(key, value))
RECURSIVE CopySearchParams(_, _, _)
CopySearchParams(source, i, target) ==
    IF i > Len(source) THEN target
    ELSE CopySearchParams(source, i + 1,
                          SearchParamsAppend(target, source[i][1], source[i][2]))

\* new URL(request.url)
ParseUrl(req) == [pathname |-> req.path, searchParams |-> req.query]

\* new URL(`https://${host}${url.pathname}`) followed by the copy of the query
BuildTargetUrl(v, u) ==
    [protocol |-> "https:", host |-> ApiHost(v), pathname |-> u.pathname,
     searchParams |-> CopySearchParams(u.searchParams, 1, <<>>)]

NoUrl == [pathname |-> <<>>, searchParams |-> <<>>]
NoTargetUrl == [protocol |-> "", host |-> "", pathname |-> <<>>, searchParams |-> <<>>]

\* ----------------------------------------------------------------- inputs
Methods == {"OPTIONS", "GET", "POST", "TRACE"}

\* methods the Request constructor rejects with a TypeError
ForbiddenMethods == {"CONNECT", "TRACE", "TRACK"}

Paths == {IMAGE_GENERATION_PATH,
          <<"/", "v1", "/", "models">>,
          <<"/", "v1">>,
          <<"/", "unknown">>}

QueryPairs == {<<"a", "1">>, <<"a", "2">>}

Queries == UNION {[1..n -> QueryPairs] : n \in 0..MaxQuery}

RequestHeaders ==
    {EmptyHeaders,
     [h \in {"content-type"} |-> <<"application/json">>],
     [h \in {"content-type"} |-> <<"application/json", "; charset=utf-8">>],
     [h \in {"content-type"} |-> <<"text/plain">>],
     [h \in {"content-type", "authorization", "cf-ray"} |->
        CASE h = "content-type" -> <<"application/json">>
          [] h = "authorization" -> <<"Bearer key">>
          [] h = "cf-ray" -> <<"8a1b">>]}

BodyKeys == {"prompt", "model", "negativePrompt", "width", "height",
             "sample_strength", "n", "response_format", "unsupported_field"}

Candidates(key) ==
    CASE key = "prompt" -> {JStr(""), JStr("cat")}
      [] key = "model" -> {JStr(""), JNull, JStr("jimeng-2.1")}
      [] key = "negativePrompt" -> {JStr("blur")}
      [] key = "width" -> {JNum(0, 1), JNum(512, 1)}
      [] key = "height" -> {JNum(0, 1)}
      [] key = "sample_strength" -> {JNum(0, 1), JNull}
      [] key = "n" -> {JNum(2, 1)}
      [] key = "response_format" -> {JStr("b64_json")}
      [] OTHER -> {JStr("x")}

AllCandidates == UNION {Candidates(k) : k \in BodyKeys}

ObjectProps ==
    {f \in UNION {[K -> AllCandidates] :
                    K \in {S \in SUBSET BodyKeys : Cardinality(S) <= MaxKeys}} :
        \A k \in DOMAIN f : f[k] \in Candidates(k)}

\* bodies that are not JSON objects: unparsable text, and the JSON values
\* null, [..], "..", 7, true
PlainBodies == {Body(kind, EmptyObject) :
                  kind \in {"invalid", "null", "array", "string", "number", "boolean"}}

Bodies == PlainBodies \cup {Body("object", props) : props \in ObjectProps}

NoRequest == [method |-> "", path |-> <<>>, query |-> <<>>,
              headers |-> EmptyHeaders, body |-> Body("invalid", EmptyObject)]

\* bodies sent to every route: unparsable text, null, and two small objects
BasicBodies ==
    {Body("invalid", EmptyObject), Body("null", EmptyObject)}
    \cup {Body("object", props) : props \in {f \in ObjectProps : DOMAIN f \subseteq {"prompt"}}}

\* the requests the model enumerates: every method, path, query and header set
\* with a basic body, and every method, header set and body on the
\* image-generation path without a query
Requests ==
    {[method |-> m, path |-> p, query |-> q, headers |-> h, body |-> b] :
        m \in Methods, p \in Paths, q \in Queries, h \in RequestHeaders, b \in BasicBodies}
    \cup
    {[method |-> m, path |-> p, query |-> q, headers |-> h, body |-> b] :
        m \in Methods, p \in {IMAGE_GENERATION_PATH}, q \in {<<>>},
        h \in RequestHeaders, b \in Bodies}

\* what the upstream answers when the fetch resolves
UpstreamHeaders ==
    {[h \in {"content-type"} |-> <<"text/html">>],
     [h \in {"content-type", "access-control-allow-origin"} |->
        IF h = "content-type" THEN <<"application/json">>
        ELSE <<"https://other.example">>]}

UpstreamResponses ==
    {Response(st, hs, StreamBody("upstream")) : st \in {200, 401}, hs \in UpstreamHeaders}

\* the messages of the errors with which the fetch rejects
FetchErrors == {"connection reset"}

NoOutbound == [url |-> NoTargetUrl, method |-> "", headers |-> EmptyHeaders,
               body |-> [kind |-> "none", json |-> EmptyObject]]

\* ---------------------------------------------- handleImageGenerationRequest
\* the content-type check left out
UnsupportedContentType_skipped(req) == FALSE

\* !contentType.includes('application/json')
UnsupportedContentType(req) ==
    ~Includes(HeadersGetOrEmpty(req.headers, "content-type"), "application/json")

\* the whole parsed body is forwarded
FilterParams_copyAll(body, params, i, filtered) ==
    IF body.kind = "object" THEN body.props ELSE EmptyObject

\* for (const param of SUPPORTED_IMAGE_PARAMS)
\*     if (originalBody[param] !== undefined) filteredBody[param] = originalBody[param]
RECURSIVE FilterParams(_, _, _, _)
FilterParams(body, params, i, filtered) ==
    IF i > Len(params) THEN filtered
    ELSE FilterParams(body, params, i + 1,
                      IF GetProp(body, params[i]).t # "undefined"
                      THEN SetProp(filtered, params[i], GetProp(body, params[i]))
                      ELSE filtered)

\* if (!filteredBody.key) filteredBody.key = value
DefaultIfFalsy(obj, key, value) ==
    IF ~Truthy(ReadProp(obj, key)) THEN SetProp(obj, key, value) ELSE obj

\* if (filteredBody.key === undefined) filteredBody.key = value
DefaultIfUndefined(obj, key, value) ==
    IF ReadProp(obj, key).t = "undefined" THEN SetProp(obj, key, value) ELSE obj

\* the five defaulting statements of the jimeng deployment, in their order
AddDefaults(filtered) ==
    LET b1 == DefaultIfFalsy(filtered, "model", JStr("jimeng-3.0"))
        b2 == DefaultIfFalsy(b1, "negativePrompt", JStr(""))
        b3 == DefaultIfFalsy(b2, "width", JNum(1024, 1))
        b4 == DefaultIfFalsy(b3, "height", JNum(1024, 1))
    IN DefaultIfUndefined(b4, "sample_strength", JNum(1, 2))

\* new Request(targetUrl.toString(), { method: 'POST', headers, body: JSON.stringify(filteredBody) })
ImageApiRequest(req, target, filtered) ==
    [url |-> target,
     method |-> "POST",
     headers |-> [h \in {"content-type", "authorization"} |->
                    IF h = "content-type" THEN <<"application/json">>
                    ELSE HeadersGetOrEmpty(req.headers, "authorization")],
     body |-> [kind |-> "json", json |-> JSONStringify(filtered)]]

\* the request of the generic forwarder: inbound headers, Host set, cf-* removed,
\* the inbound body unless the method is GET or HEAD
GenericApiRequest(v, req, target) ==
    [url |-> target,
     method |-> req.method,
     headers |-> HeadersDelete(HeadersDelete(HeadersDelete(HeadersDelete(
                    HeadersSet(req.headers, "host", <<ApiHost(v)>>),
                    "cf-connecting-ip"), "cf-ipcountry"), "cf-ray"), "cf-visitor"),
     body |-> IF req.method # "GET" /\ req.method # "HEAD"
              THEN [kind |-> "stream", json |-> EmptyObject]
              ELSE [kind |-> "none", json |-> EmptyObject]]

\* ------------------------------------------------------------ route tests
IsImageRoute(u, req) == u.pathname = IMAGE_GENERATION_PATH /\ req.method = "POST"

\* the prefix test without its trailing slash
IsNotFound_noSlash(v, u, req) ==
    IF v = "jimeng" THEN ~IsImageRoute(u, req)
    ELSE ~StartsWith(u.pathname, <<"/", "v1">>)

\* the request is answered 404 without being forwarded
IsNotFound(v, u, req) ==
    IF v = "jimeng" THEN ~IsImageRoute(u, req)
    ELSE ~StartsWith(u.pathname, V1_PREFIX)

\* ------------------------------------------------------------------ state
Init ==
    /\ variant \in Variants
    /\ pc = "idle"
    /\ request = NoRequest
    /\ url = NoUrl
    /\ targetUrl = NoTargetUrl
    /\ originalBody = Body("invalid", EmptyObject)
    /\ filteredBody = EmptyObject
    /\ outbound = NoOutbound
    /\ upstream = NoResponse
    /\ fetchError = ""
    /\ response = NoResponse
    /\ escaped = FALSE
    /\ route = "none"
    /\ trace = <<>>
    /\ parseCount = 0
    /\ fetchCount = 0

\* the handler ends with a response, or with an exception that escapes
Finish(outcome) ==
    /\ pc' = "done"
    /\ response' = outcome.response
    /\ escaped' = outcome.escaped

Return(resp) == Finish([response |-> resp, escaped |-> FALSE])

\* Deno.serve calls handleRequest; const url = new URL(request.url)
Receive ==
    /\ pc = "idle"
    /\ \E req \in Requests :
        /\ request' = req
        /\ url' = ParseUrl(req)
    /\ pc' = "start"
    /\ UNCHANGED <<variant, targetUrl, originalBody, filteredBody, outbound, upstream,
                   fetchError, response, escaped, route, trace, parseCount, fetchCount>>

\* if (request.method === 'OPTIONS') return handleCorsPreflight()
Preflight ==
    /\ pc = "start"
    /\ request.method = "OPTIONS"
    /\ route' = "preflight"
    /\ Return(handleCorsPreflight)
    /\ UNCHANGED <<variant, request, url, targetUrl, originalBody, filteredBody, outbound,
                   upstream, fetchError, trace, parseCount, fetchCount>>

\* the 404 branch of the route dispatcher
RouteNotFound ==
    /\ pc = "start"
    /\ request.method # "OPTIONS"
    /\ IsNotFound(variant, url, request)
    /\ route' = "notfound"
    /\ Return(NotFoundResponse)
    /\ UNCHANGED <<variant, request, url, targetUrl, originalBody, filteredBody, outbound,
                   upstream, fetchError, trace, parseCount, fetchCount>>

\* the target URL is built and handleImageGenerationRequest is entered
RouteImage ==
    /\ pc = "start"
    /\ request.method # "OPTIONS"
    /\ ~IsNotFound(variant, url, request)
    /\ IsImageRoute(url, request)
    /\ targetUrl' = BuildTargetUrl(variant, url)
    /\ route' = "image"
    /\ pc' = "contentType"
    /\ UNCHANGED <<variant, request, url, originalBody, filteredBody, outbound, upstream,
                   fetchError, response, escaped, trace, parseCount, fetchCount>>

\* the generic forwarder up to its fetch; new Request throws a TypeError on a
\* forbidden method, which the handler's catch turns into a response
RouteGeneric ==
    /\ pc = "start"
    /\ request.method # "OPTIONS"
    /\ ~IsNotFound(variant, url, request)
    /\ ~IsImageRoute(url, request)
    /\ targetUrl' = BuildTargetUrl(variant, url)
    /\ route' = "generic"
    /\ IF request.method \in ForbiddenMethods
       THEN /\ Finish(OuterCatch("Method is forbidden"))
            /\ UNCHANGED <<outbound, fetchCount>>
       ELSE /\ outbound' = GenericApiRequest(variant, request, targetUrl')
            /\ fetchCount' = fetchCount + 1
            /\ pc' = "fetching"
            /\ UNCHANGED <<response, escaped>>
    /\ UNCHANGED <<variant, request, url, originalBody, filteredBody, upstream,
                   fetchError, trace, parseCount>>

\* checkpoint 1: the content type
CheckContentType ==
    /\ pc = "contentType"
    /\ trace' = Append(trace, "contentType")
    /\ IF UnsupportedContentType(request)
       THEN Return(ErrorResponse(400, "Unsupported Content-Type. Please use application/json"))
       ELSE /\ pc' = "parse"
            /\ UNCHANGED <<response, escaped>>
    /\ UNCHANGED <<variant, request, url, targetUrl, originalBody, filteredBody, outbound,
                   upstream, fetchError, route, parseCount, fetchCount>>

\* checkpoint 2: originalBody = await request.clone().json()
ParseBody ==
    /\ pc = "parse"
    /\ trace' = Append(trace, "parse")
    /\ parseCount' = parseCount + 1
    /\ IF request.body.kind = "invalid"
       THEN /\ Return(ErrorResponse(400, "Invalid JSON body"))
            /\ UNCHANGED originalBody
       ELSE /\ originalBody' = request.body
            /\ pc' = IF variant = "jimeng" THEN "required" ELSE "filter"
            /\ UNCHANGED <<response, escaped>>
    /\ UNCHANGED <<variant, request, url, targetUrl, filteredBody, outbound, upstream,
                   fetchError, route, fetchCount>>

\* checkpoint 3 (jimeng): if (!originalBody.prompt); reading a property of null
\* throws a TypeError that handleRequest catches
CheckRequired ==
    /\ pc = "required"
    /\ trace' = Append(trace, "required")
    /\ IF originalBody.kind = "null"
       THEN Finish(OuterCatch("Cannot read properties of null (reading 'prompt')"))
       ELSE IF ~Truthy(GetProp(originalBody, "prompt"))
       THEN Return(ErrorResponse(400, "Missing required parameter: prompt"))
       ELSE /\ pc' = "filter"
            /\ UNCHANGED <<response, escaped>>
    /\ UNCHANGED <<variant, request, url, targetUrl, originalBody, filteredBody, outbound,
                   upstream, fetchError, route, parseCount, fetchCount>>

\* checkpoint 4: the allow-list filter and, in the jimeng deployment, the defaults
Filter ==
    /\ pc = "filter"
    /\ trace' = Append(trace, "filter")
    /\ IF originalBody.kind = "null"
       THEN /\ Finish(OuterCatch("Cannot read properties of null (reading 'model')"))
            /\ UNCHANGED filteredBody
       ELSE /\ filteredBody' =
                 LET filtered == FilterParams(originalBody, SUPPORTED_IMAGE_PARAMS(variant),
                                              1, EmptyObject)
                 IN IF variant = "jimeng" THEN AddDefaults(filtered) ELSE filtered
            /\ pc' = "dispatch"
            /\ UNCHANGED <<response, escaped>>
    /\ UNCHANGED <<variant, request, url, targetUrl, originalBody, outbound, upstream,
                   fetchError, route, parseCount, fetchCount>>

\* checkpoint 5: the upstream request is built and fetch is called
Dispatch ==
    /\ pc = "dispatch"
    /\ trace' = Append(trace, "dispatch")
    /\ outbound' = ImageApiRequest(request, targetUrl, filteredBody)
    /\ fetchCount' = fetchCount + 1
    /\ pc' = "fetching"
    /\ UNCHANGED <<variant, request, url, targetUrl, originalBody, filteredBody, upstream,
                   fetchError, response, escaped, route, parseCount>>

\* the fetch resolves: the upstream response is relayed
FetchReturns ==
    /\ pc = "fetching"
    /\ \E apiResponse \in UpstreamResponses :
        /\ upstream' = apiResponse
        /\ Return(Relay(apiResponse, route = "image"))
    /\ UNCHANGED <<variant, request, url, targetUrl, originalBody, filteredBody, outbound,
                   fetchError, route, trace, parseCount, fetchCount>>

\* the fetch rejects: the image route has its own catch, the generic
\* forwarder falls through to the catch of handleRequest
FetchThrows ==
    /\ pc = "fetching"
    /\ \E message \in FetchErrors :
        /\ fetchError' = message
        /\ IF route = "image"
           THEN Return(FetchCatch(variant, message))
           ELSE Finish(OuterCatch(message))
    /\ UNCHANGED <<variant, request, url, targetUrl, originalBody, filteredBody, outbound,
                   upstream, route, trace, parseCount, fetchCount>>

\* the response has been handed to the runtime; the next request may come
Respond ==
    /\ pc = "done"
    /\ pc' = "idle"
    /\ request' = NoRequest
    /\ url' = NoUrl
    /\ targetUrl' = NoTargetUrl
    /\ originalBody' = Body("invalid", EmptyObject)
    /\ filteredBody' = EmptyObject
    /\ outbound' = NoOutbound
    /\ upstream' = NoResponse
    /\ fetchError' = ""
    /\ response' = NoResponse
    /\ escaped' = FALSE
    /\ route' = "none"
    /\ trace' = <<>>
    /\ parseCount' = 0
    /\ fetchCount' = 0
    /\ UNCHANGED variant

\* the steps of one invocation of handleRequest that do not wait for the upstream
HandlerStep ==
    \/ Preflight
    \/ RouteNotFound
    \/ RouteImage
    \/ RouteGeneric
    \/ CheckContentType
    \/ ParseBody
    \/ CheckRequired
    \/ Filter
    \/ Dispatch

Next ==
    \/ Receive
    \/ Preflight
    \/ RouteNotFound
    \/ RouteImage
    \/ RouteGeneric
    \/ CheckContentType
    \/ ParseBody
    \/ CheckRequired
    \/ Filter
    \/ Dispatch
    \/ FetchReturns
    \/ FetchThrows
    \/ Respond

Spec == Init /\ [][Next]_vars

\* the handler's own steps are always taken, and a fetch either resolves or rejects
FairSpec ==
    /\ Spec
    /\ WF_vars(HandlerStep)
    /\ WF_vars(FetchReturns \/ FetchThrows)

TypeOK ==
    /\ variant \in Variants
    /\ pc \in {"idle", "start", "contentType", "parse", "required", "filter",
               "dispatch", "fetching", "done"}
    /\ parseCount \in 0..1
    /\ fetchCount \in 0..1

\* ------------------------------------------------------------- properties
Range(seq) == {seq[i] : i \in 1..Len(seq)}

AllowOrigin == "access-control-allow-origin"

\* the inbound Content-Type header names application/json
RequestHasJsonContentType ==
    /\ "content-type" \in DOMAIN request.headers
    /\ \E i \in 1..Len(request.headers["content-type"]) :
          request.headers["content-type"][i] = "application/json"

\* the value the request body holds under a key (undefined when it holds none)
Supplied(key) ==
    IF request.body.kind = "object" /\ key \in DOMAIN request.body.props
    THEN request.body.props[key]
    ELSE Undefined

\* a request body was sent upstream by the image-generation route
ImageSent == route = "image" /\ fetchCount = 1 /\ outbound.body.kind = "json"

\* C1: every response the handler returns, on every path, carries
\* Access-Control-Allow-Origin: *, also when the upstream supplied another value
C1_CorsOnEveryResponse ==
    pc = "done" =>
        /\ AllowOrigin \in DOMAIN response.headers
        /\ response.headers[AllowOrigin] = <<"*">>

\* C1 witness: a relayed response whose upstream carried a different origin value
C1_Witness ==
    /\ pc = "done"
    /\ upstream.status = 200
    /\ AllowOrigin \in DOMAIN upstream.headers
    /\ upstream.headers[AllowOrigin] = <<"https://other.example">>
    /\ response.headers[AllowOrigin] = <<"*">>

MessagePrefixes == {"Error fetching from API: ", "Error fetching from xAI API: ",
                    "Internal Server Error: "}

EmbedsMessage(text, message) == \E prefix \in MessagePrefixes : text = prefix \o message

\* C2 (as claimed): whenever the upstream fetch fails, on the image route and on
\* the generic passthrough route, the response is 502 and its JSON error body
\* embeds the failure message
C2_FetchFailureIs502 ==
    (pc = "done" /\ fetchError # "") =>
        /\ response.status = 502
        /\ response.body.kind = "json-error"
        /\ EmbedsMessage(response.body.text, fetchError)

\* C3 (as claimed): in the jimeng deployment a POST to the image path with a JSON
\* content type and a body that is valid JSON (null included) without a truthy
\* prompt is answered 400 naming prompt, with no upstream request
C3_MissingPromptIs400 ==
    (/\ variant = "jimeng"
     /\ pc = "done"
     /\ request.method = "POST"
     /\ request.path = IMAGE_GENERATION_PATH
     /\ RequestHasJsonContentType
     /\ request.body.kind # "invalid"
     /\ ~Truthy(Supplied("prompt"))) =>
        /\ response.status = 400
        /\ response.body = ErrorBody("Missing required parameter: prompt")
        /\ fetchCount = 0

\* C4: on the image route the keys sent upstream are allow-listed, every
\* allow-listed key the body holds is sent, and an object body with a JSON content
\* type (and, in the jimeng deployment, a truthy prompt) is forwarded whatever
\* other keys it holds
C4_AllowListFilter ==
    /\ ImageSent =>
        /\ DOMAIN outbound.body.json \subseteq Range(SUPPORTED_IMAGE_PARAMS(variant))
        /\ \A key \in Range(SUPPORTED_IMAGE_PARAMS(variant)) :
              Supplied(key).t # "undefined" => key \in DOMAIN outbound.body.json
        /\ "unsupported_field" \notin DOMAIN outbound.body.json
    /\ (/\ pc = "done"
        /\ route = "image"
        /\ RequestHasJsonContentType
        /\ request.body.kind = "object"
        /\ (variant = "jimeng" => Truthy(Supplied("prompt")))) =>
            /\ fetchCount = 1
            /\ response.status \notin {400, 500}

\* C4 witness: a body with prompt and an unlisted key has been sent upstream
C4_Witness ==
    /\ ImageSent
    /\ "unsupported_field" \in DOMAIN request.body.props
    /\ "prompt" \in DOMAIN outbound.body.json
    /\ outbound.body.json["prompt"] = JStr("cat")

JimengDefault(key) ==
    CASE key = "model" -> JStr("jimeng-3.0")
      [] key = "negativePrompt" -> JStr("")
      [] key = "width" -> JNum(1024, 1)
      [] key = "height" -> JNum(1024, 1)
      [] key = "sample_strength" -> JNum(1, 2)

\* C5 (as claimed): in the jimeng deployment the body sent upstream holds, for
\* every allow-listed key the caller supplied, the caller's value unchanged
\* (falsy values included), and the default for exactly the keys never supplied
C5_DefaultsOnlyWhenAbsent ==
    (variant = "jimeng" /\ ImageSent) =>
        \A key \in Range(SUPPORTED_IMAGE_PARAMS("jimeng")) :
            /\ key \in DOMAIN outbound.body.json
            /\ outbound.body.json[key] = IF Supplied(key).t # "undefined"
                                         THEN Supplied(key)
                                         ELSE JimengDefault(key)

\* C6: every OPTIONS request gets 204, an empty body and the fixed preflight
\* headers; no upstream request is made and no body is read
C6_Preflight ==
    (pc = "done" /\ request.method = "OPTIONS") =>
        /\ response.status = 204
        /\ response.body.kind = "null"
        /\ DOMAIN response.headers = {"access-control-allow-origin",
                                      "access-control-allow-methods",
                                      "access-control-allow-headers",
                                      "access-control-max-age"}
        /\ response.headers["access-control-allow-origin"] = <<"*">>
        /\ response.headers["access-control-allow-methods"] = <<"GET, POST, PUT, DELETE, OPTIONS">>
        /\ response.headers["access-control-allow-headers"] = <<"Content-Type, Authorization, X-Requested-With">>
        /\ response.headers["access-control-max-age"] = <<"86400">>
        /\ fetchCount = 0
        /\ parseCount = 0
        /\ outbound = NoOutbound

\* C6 witness: an OPTIONS request to the image path with a JSON object body
C6_Witness ==
    /\ pc = "done"
    /\ request.method = "OPTIONS"
    /\ request.path = IMAGE_GENERATION_PATH
    /\ request.body.kind = "object"
    /\ response.status = 204

PathIsImage == request.path = <<"/", "v1", "/", "images", "/", "generations">>

PathHasV1Prefix == Len(request.path) >= 3 /\ SubSeq(request.path, 1, 3) = <<"/", "v1", "/">>

\* C7: the route of a non-OPTIONS request is decided by method and path alone;
\* jimeng: image route iff POST to the image path, else 404 without upstream call;
\* xai: 404 without upstream call iff the path lacks the /v1/ prefix, image route
\* iff POST to the image path, generic passthrough otherwise
C7_Routing ==
    (pc \notin {"idle", "start"} /\ request.method # "OPTIONS") =>
        /\ route \in {"image", "notfound", "generic"}
        /\ route = "image" <=> (PathIsImage /\ request.method = "POST")
        /\ variant = "jimeng" => route # "generic"
        /\ variant = "xai" => (route = "notfound" <=> ~PathHasV1Prefix)
        /\ route = "notfound" =>
              /\ pc = "done"
              /\ response.status = 404
              /\ fetchCount = 0
              /\ outbound = NoOutbound
        /\ route = "generic" => fetchCount = 1 \/ request.method = "TRACE"

\* C7 witness: a GET to the image path of the xai deployment is passed through
C7_Witness ==
    /\ variant = "xai"
    /\ pc = "fetching"
    /\ route = "generic"
    /\ PathIsImage
    /\ request.method = "GET"

ExpectedHost == IF variant = "jimeng" THEN "sejktjafstpl.us-east-1.clawcloudrun.com"
                ELSE "api.x.ai"

\* C8: a forwarded request's outbound URL has the inbound query parameters in the
\* same order with duplicates kept, the inbound path, the fixed host, and https
C8_QueryPreserved ==
    fetchCount = 1 =>
        /\ outbound.url.searchParams = request.query
        /\ outbound.url.pathname = request.path
        /\ outbound.url.host = ExpectedHost
        /\ outbound.url.protocol = "https:"

\* C8 witness: a forwarded request whose query repeats a key with two values
C8_Witness ==
    /\ pc = "fetching"
    /\ request.query = <<(<<"a", "2">>), (<<"a", "1">>)>>
    /\ outbound.url.searchParams = <<(<<"a", "2">>), (<<"a", "1">>)>>

CheckpointOrder ==
    IF variant = "jimeng"
    THEN <<"contentType", "parse", "required", "filter", "dispatch">>
    ELSE <<"contentType", "parse", "filter", "dispatch">>

IsPrefix(a, b) == Len(a) <= Len(b) /\ \A i \in 1..Len(a) : a[i] = b[i]

FailsContentType == ~RequestHasJsonContentType

FailsParse == RequestHasJsonContentType /\ request.body.kind = "invalid"

\* the required-field test is evaluated (the body is not null) and finds no prompt
FailsRequired ==
    /\ variant = "jimeng"
    /\ RequestHasJsonContentType
    /\ request.body.kind \notin {"invalid", "null"}
    /\ ~Truthy(Supplied("prompt"))

C10_AlwaysResponds ==
    /\ [](pc = "done" =>
            /\ ~escaped
            /\ response.status \in {204, 400, 404, 500, 502, 200, 401}
            /\ (route = "image" /\ originalBody.kind = "null") =>
                  /\ response.status = 500
                  /\ response.body.kind = "json-error"
                  /\ \E message \in {"Cannot read properties of null (reading 'prompt')",
                                     "Cannot read properties of null (reading 'model')"} :
                        response.body.text = "Internal Server Error: " \o message)
    /\ [][pc = "done" => pc' = "idle"]_vars
    /\ (pc = "start") ~> (pc = "done")

\* C10 witness: a null body ended as a 500 response
C10_Witness ==
    /\ pc = "done"
    /\ route = "image"
    /\ originalBody.kind = "null"
    /\ response.status = 500
    /\ ~escaped

====
